---- MODULE Spec2Model ----
(***************************************************************************)
(* The two scripts of transfer_learning/:                                  *)
(*   ClassificationReportProcessing.py  load_report, plot_f1               *)
(*   ModelEvaluation.py  load_testing_set_and_transform, make_predictions, *)
(*                       create_confusion_matrix                           *)
(* Strings that the code splits, upper-cases or searches are sequences of  *)
(* one-character strings.  Python's 0-based indices are 1-based here.      *)
(***************************************************************************)
EXTENDS Integers, Sequences, FiniteSets

VARIABLES pc, csv_file, csv_name, classification_report, saved_files,
          classes, testing_set, tie_break, order,
          top_1_accuracy, top_5_accuracy, all_ground_truth, all_predictions,
          reported, conf_matrix

vars == <<pc, csv_file, csv_name, classification_report, saved_files,
          classes, testing_set, tie_break, order,
          top_1_accuracy, top_5_accuracy, all_ground_truth, all_predictions,
          reported, conf_matrix>>

report_vars == <<csv_file, csv_name, classification_report>>

eval_vars == <<classes, testing_set, tie_break, order,
               top_1_accuracy, top_5_accuracy, all_ground_truth, all_predictions,
               reported, conf_matrix>>

(* ---------------------------- bounds ---------------------------------- *)
MaxPathLen == 5
MaxRows == 5
MaxSamples == 2

(* ------------------------ program constants --------------------------- *)
SummaryRows == 3
TopK == 5

(* ---------------------------- strings --------------------------------- *)
RECURSIVE SeqsUpTo(_, _)
SeqsUpTo(S, n) ==
  IF n = 0 THEN {<<>>}
  ELSE LET shorter == SeqsUpTo(S, n - 1)
       IN  shorter \cup {Append(s, x) : s \in {t \in shorter : Len(t) = n - 1}, x \in S}

PathChars == {"/", "_", "a", " "}
Paths == SeqsUpTo(PathChars, MaxPathLen)

\* sys.argv[1] once load_report has read it: a path that names a file.
FilePaths == {path \in Paths : path # <<>> /\ path[Len(path)] # "/"}

\* str.split(d): the segments between the occurrences of d (always at least one).
RECURSIVE Split(_, _)
Split(s, d) ==
  IF \A i \in 1..Len(s) : s[i] # d THEN <<s>>
  ELSE LET i == CHOOSE k \in 1..Len(s) : s[k] = d /\ \A j \in 1..(k - 1) : s[j] # d
       IN  <<SubSeq(s, 1, i - 1)>> \o Split(SubSeq(s, i + 1, Len(s)), d)

\* str.upper()
Upper(s) == [i \in 1..Len(s) |-> IF s[i] = "a" THEN "A" ELSE s[i]]

\* str.replace(old, new) for one-character old and new
Replace(s, old, new) == [i \in 1..Len(s) |-> IF s[i] = old THEN new ELSE s[i]]

F1ScoreSuffix == <<" ", "F", "1", " ", "S", "c", "o", "r", "e">>
PngSuffix == <<".", "p", "n", "g">>
ConfusionMatrixSuffix ==
  <<"_", "C", "o", "n", "f", "u", "s", "i", "o", "n", "_",
    "M", "a", "t", "r", "i", "x", ".", "p", "n", "g">>

(* ----------------- ClassificationReportProcessing.py ------------------ *)
ReportColumns == <<"Cities", "Precision", "Recall", "F1_Score", "Support">>

\* Column names read_csv may return: those of the report that
\* create_confusion_matrix saves (its first column is unnamed), five unrelated
\* names, and tables one column short or one too many.
SklearnHeader == <<"Unnamed: 0", "precision", "recall", "f1-score", "support">>
Headers == { SklearnHeader,
             <<"id", "x", "y", "z", "w">>,
             <<"Unnamed: 0", "precision", "recall", "f1-score">>,
             <<"Unnamed: 0", "precision", "recall", "f1-score", "support", "extra">> }

RowNames == {"city", "avg"}
IsSummary(row) == row.name = "avg"

\* A parsed table: rows carry the index pandas gives them (their position).
TableOf(names) == [i \in 1..Len(names) |-> [index |-> i, name |-> names[i]]]
Tables == {TableOf(names) : names \in SeqsUpTo(RowNames, MaxRows)}

\* What csv_path may resolve to: no file, a file pandas cannot parse, or a table.
Files == {[exists |-> FALSE, parses |-> FALSE, header |-> <<>>, rows |-> <<>>],
          [exists |-> TRUE, parses |-> FALSE, header |-> <<>>, rows |-> <<>>]}
         \cup [exists : {TRUE}, parses : {TRUE}, header : Headers, rows : Tables]

\* df[:-(n - 1)]: one summary row too few is cut.
DropLastOffByOne(rows, n) ==
  IF Len(rows) > n - 1 THEN SubSeq(rows, 1, Len(rows) - (n - 1)) ELSE <<>>

\* df[:-n]
DropLast(rows, n) == IF Len(rows) > n THEN SubSeq(rows, 1, Len(rows) - n) ELSE <<>>

NoReport == [columns |-> <<>>, rows |-> <<>>]

NumColumns == Len(ReportColumns)

\* load_report without the column assignment: any number of columns passes.
LoadReportFailsOnReadOnly(file) ==
  \/ ~file.exists
  \/ ~file.parses

\* load_report: read_csv raises for a missing or unparsable file, the column
\* assignment raises when the table does not have five columns.
LoadReportFails(file) ==
  \/ ~file.exists
  \/ ~file.parses
  \/ Len(file.header) # NumColumns

LoadReportResult(file) ==
  [columns |-> ReportColumns, rows |-> DropLast(file.rows, SummaryRows)]

\* load_report(csv_path); file is what csv_path names on disk.
load_report(file) ==
  /\ pc = "start"
  /\ csv_file' = file
  /\ classification_report' =
       IF LoadReportFails(file) THEN NoReport ELSE LoadReportResult(file)
  /\ pc' = IF LoadReportFails(file) THEN "load_report_error" ELSE "report_loaded"
  /\ UNCHANGED <<csv_name, saved_files>>
  /\ UNCHANGED eval_vars

\* The chart title; both branches of the "VGG-19" test assign this expression.
HasTitle(path) == Len(Split(path, "/")) >= 3 /\ Len(Split(path, "_")) >= 3

\* The title taken from the second '_' segment instead of the third.
TitleFromSecondSegment(path) ==
  Split(Split(path, "/")[3], "_")[1] \o <<" ">> \o Upper(Split(path, "_")[2])
    \o F1ScoreSuffix

Title(path) ==
  Split(Split(path, "/")[3], "_")[1] \o <<" ">> \o Upper(Split(path, "_")[3])
    \o F1ScoreSuffix

F1FileName(path) == Replace(Title(path), " ", "_") \o PngSuffix

Contains(s, c) == \E i \in 1..Len(s) : s[i] = c

\* plot_f1(classification_report, csv_name): one bar per row of the report; the
\* index lookups raise IndexError before anything is drawn or saved.  savefig
\* writes under ../visualisations/f1_scores/; a '/' in the name makes it a path
\* into a sub-directory, and savefig raises when that directory does not exist.
plot_f1(path, subdir_exists) ==
  /\ pc = "report_loaded"
  /\ csv_name' = path
  /\ IF ~HasTitle(path)
       THEN /\ saved_files' = saved_files
            /\ pc' = "plot_f1_error"
       ELSE IF Contains(F1FileName(path), "/") /\ ~subdir_exists
         THEN /\ saved_files' = saved_files
              /\ pc' = "savefig_error"
         ELSE /\ saved_files' = Append(saved_files,
                   [dir |-> "f1_scores", name |-> F1FileName(path),
                    bars |-> Len(classification_report.rows)])
              /\ pc' = "plotted"
  /\ UNCHANGED <<csv_file, classification_report>>
  /\ UNCHANGED eval_vars

(* ------------------------- ModelEvaluation.py ------------------------- *)
AllClasses == <<"A", "B", "C", "D", "E", "F">>
ClassLists == {SubSeq(AllClasses, 1, n) : n \in 4..Len(AllClasses)}

\* The network's exponentiated outputs for one image: one score per class.
\* Either one class stands out (the first, the second or the last of the list)
\* or every class scores the same.
OneHot(c, n) == [i \in 1..n |-> IF i = c THEN 1 ELSE 0]
OutputVectors(n) == {OneHot(c, n) : c \in {1, 2, n}} \cup {[i \in 1..n |-> 1]}

Samples(n) == [label : 1..n, scores : OutputVectors(n)]

\* ImageFolder lists the images class by class.
SortedByClass(set) ==
  \A i \in 1..Len(set), j \in 1..Len(set) : i < j => set[i].label <= set[j].label

TestingSets(n) == {set \in SeqsUpTo(Samples(n), MaxSamples) : SortedByClass(set)}

\* topk leaves the choice among equal scores open; a build resolves it one
\* way for every call.
TiePolicies == {"lowest_index", "highest_index"}

\* np.argmax: the first index that holds the maximum.
ArgMax(scores) ==
  CHOOSE i \in DOMAIN scores :
    /\ \A j \in DOMAIN scores : scores[j] <= scores[i]
    /\ \A j \in DOMAIN scores : j < i => scores[j] < scores[i]

Before(scores, policy, i, j) ==
  \/ scores[i] > scores[j]
  \/ /\ scores[i] = scores[j]
     /\ IF policy = "lowest_index" THEN i < j ELSE i > j

\* Tensor.topk(k)[1]: the indices of the k largest scores.
TopKIndices(scores, k, policy) ==
  {i \in DOMAIN scores :
     Cardinality({j \in DOMAIN scores : Before(scores, policy, j, i)}) < k}

\* A confusion matrix that leaves the last position out.
ConfusionMatrixWithoutLast(y_true, y_pred, labels) ==
  [i \in 1..Len(labels) |->
     [j \in 1..Len(labels) |->
        Cardinality({k \in 1..(Len(y_true) - 1) :
                       y_true[k] = labels[i] /\ y_pred[k] = labels[j]})]]

\* sklearn.metrics.confusion_matrix(y_true, y_pred, labels): cell (i, j) counts
\* the positions whose true class is labels[i] and predicted class is labels[j];
\* positions whose true or predicted class is not in labels are dropped.
ConfusionMatrix(y_true, y_pred, labels) ==
  [i \in 1..Len(labels) |->
     [j \in 1..Len(labels) |->
        Cardinality({k \in 1..Len(y_true) :
                       y_true[k] = labels[i] /\ y_pred[k] = labels[j]})]]

\* (count / len) * 100 printed with two decimals, in hundredths of a percent.
Percent(count, len) == (2 * 10000 * count + len) \div (2 * len)

NoAccuracy == [top_1 |-> -1, top_5 |-> -1]

\* load_testing_set_and_transform: ImageFolder raises when it finds no image.
load_testing_set_and_transform(cls, set, policy) ==
  /\ pc = "start"
  /\ classes' = cls
  /\ testing_set' = set
  /\ tie_break' = policy
  /\ pc' = IF set = <<>> THEN "load_testing_set_error" ELSE "loaded"
  /\ UNCHANGED <<order, top_1_accuracy, top_5_accuracy, all_ground_truth,
                 all_predictions, reported, conf_matrix, saved_files>>
  /\ UNCHANGED report_vars

\* A loader that may yield the image it yielded last once more.
RemainingWithRepeat ==
  (1..Len(testing_set)) \ {order[k] : k \in 1..(Len(order) - 1)}

Remaining == (1..Len(testing_set)) \ {order[k] : k \in 1..Len(order)}

\* The Top-1 test written with <= in place of ==.
Top1StepAtMost(label, prediction_top_1) ==
  IF label <= prediction_top_1 THEN 1 ELSE 0

Top1Step(label, prediction_top_1) ==
  IF classes[label] = classes[prediction_top_1] THEN 1 ELSE 0

\* The Top-5 test with the class index taken one too high.
Top5StepShifted(label, prediction_top_5) ==
  IF label + 1 \in prediction_top_5 THEN 1 ELSE 0

Top5Step(label, prediction_top_5) ==
  IF label \in prediction_top_5 THEN 1 ELSE 0

\* One pass of the loop of make_predictions over the image the shuffling
\* loader yields next; topk(5) raises when there are fewer than 5 classes.
make_predictions_iterate(s) ==
  /\ pc = "loaded"
  /\ s \in Remaining
  /\ order' = Append(order, s)
  /\ LET labels == testing_set[s].label
         predictions == testing_set[s].scores
         prediction_top_1 == ArgMax(predictions)
         prediction_top_5 == TopKIndices(predictions, TopK, tie_break)
     IN  IF Len(classes) < TopK
           THEN /\ pc' = "make_predictions_error"
                /\ UNCHANGED <<all_ground_truth, all_predictions,
                               top_1_accuracy, top_5_accuracy>>
           ELSE /\ pc' = pc
                /\ all_ground_truth' = Append(all_ground_truth, classes[labels])
                /\ all_predictions' = Append(all_predictions, classes[prediction_top_1])
                /\ top_1_accuracy' = top_1_accuracy + Top1Step(labels, prediction_top_1)
                /\ top_5_accuracy' = top_5_accuracy + Top5Step(labels, prediction_top_5)
  /\ UNCHANGED <<classes, testing_set, tie_break, reported, conf_matrix, saved_files>>
  /\ UNCHANGED report_vars

\* After the loop: the two accuracies are printed and the sequences returned.
make_predictions_return ==
  /\ pc = "loaded"
  /\ Remaining = {}
  /\ reported' = [top_1 |-> Percent(top_1_accuracy, Len(testing_set)),
                  top_5 |-> Percent(top_5_accuracy, Len(testing_set))]
  /\ pc' = "predicted"
  /\ UNCHANGED <<classes, testing_set, tie_break, order, top_1_accuracy,
                 top_5_accuracy, all_ground_truth, all_predictions, conf_matrix,
                 saved_files>>
  /\ UNCHANGED report_vars

Titles == {<<"a">>, <<"a", " ", "b">>}

ConfusionMatrixFileName(title) == title \o ConfusionMatrixSuffix

ReportCsvSuffix ==
  <<"_", "r", "g", "b", "_", "c", "l", "a", "s", "s", "i", "f", "i", "c", "a", "t", "i", "o", "n",
    "_", "r", "e", "p", "o", "r", "t", "_", ".", "c", "s", "v">>

\* create_confusion_matrix(ground_truth, predictions, classes, generate_report, title)
create_confusion_matrix(generate_report, title) ==
  /\ pc = "predicted"
  /\ conf_matrix' = ConfusionMatrix(all_ground_truth, all_predictions, classes)
  /\ saved_files' =
       saved_files
         \o <<[dir |-> "confusion_matrices", name |-> ConfusionMatrixFileName(title)]>>
         \o (IF generate_report
               THEN <<[dir |-> "classification_reports", name |-> title \o ReportCsvSuffix]>>
               ELSE <<>>)
  /\ pc' = "done"
  /\ UNCHANGED <<classes, testing_set, tie_break, order, top_1_accuracy,
                 top_5_accuracy, all_ground_truth, all_predictions, reported>>
  /\ UNCHANGED report_vars

(* --------------------------- specifications --------------------------- *)
NoFile == [exists |-> FALSE, parses |-> FALSE, header |-> <<>>, rows |-> <<>>]

Init ==
  /\ pc = "start"
  /\ csv_file = NoFile
  /\ csv_name = <<>>
  /\ classification_report = NoReport
  /\ saved_files = <<>>
  /\ classes = <<>>
  /\ testing_set = <<>>
  /\ tie_break = "lowest_index"
  /\ order = <<>>
  /\ top_1_accuracy = 0
  /\ top_5_accuracy = 0
  /\ all_ground_truth = <<>>
  /\ all_predictions = <<>>
  /\ reported = NoAccuracy
  /\ conf_matrix = <<>>

LoadReport == pc = "start" /\ \E file \in Files : load_report(file)

PlotF1 ==
  /\ pc = "report_loaded"
  /\ \E path \in FilePaths, subdir_exists \in BOOLEAN : plot_f1(path, subdir_exists)

LoadTestingSet ==
  /\ pc = "start"
  /\ \E cls \in ClassLists, policy \in TiePolicies :
       \E set \in TestingSets(Len(cls)) : load_testing_set_and_transform(cls, set, policy)

MakePredictionsIterate ==
  pc = "loaded" /\ \E s \in Remaining : make_predictions_iterate(s)

CreateConfusionMatrix ==
  /\ pc = "predicted"
  /\ \E generate_report \in BOOLEAN, title \in Titles :
       create_confusion_matrix(generate_report, title)

NextReport == LoadReport \/ PlotF1

NextEval ==
  \/ LoadTestingSet
  \/ MakePredictionsIterate
  \/ make_predictions_return
  \/ CreateConfusionMatrix

Next == NextReport \/ NextEval

Spec == Init /\ [][Next]_vars

SpecReport == Init /\ [][NextReport]_vars

SpecEval == Init /\ [][NextEval]_vars

(* ---------------------------- properties ------------------------------ *)
ReportLoaded == pc \in {"report_loaded", "plotted", "plot_f1_error", "savefig_error"}

LoadReportCalled == pc = "load_report_error" \/ ReportLoaded

PlotF1Called == pc \in {"plotted", "plot_f1_error", "savefig_error"}

PredictionsReturned == pc \in {"predicted", "done"}

\* The table of csv_file is n class rows followed by exactly three summary rows.
ClassRowsThenSummary(n) ==
  /\ Len(csv_file.rows) = n + 3
  /\ \A i \in 1..Len(csv_file.rows) : IsSummary(csv_file.rows[i]) <=> i > n

\* C1: for a table of N class rows followed by exactly 3 summary rows,
\* load_report returns exactly the first N rows, in their original order, and
\* none of the summary rows.
C1_LoadReportDropsSummaryRows ==
  \A n \in 0..MaxRows :
    (ReportLoaded /\ ClassRowsThenSummary(n)) =>
      /\ Len(classification_report.rows) = n
      /\ \A i \in 1..n : classification_report.rows[i] = csv_file.rows[i]
      /\ \A i \in 1..n : ~IsSummary(classification_report.rows[i])

C1_Witness ==
  /\ pc = "report_loaded"
  /\ ClassRowsThenSummary(2)
  /\ Len(classification_report.rows) = 2

\* The header carries the column names a classification report is saved with.
HasExpectedColumns(header) == header = SklearnHeader

\* C8 as stated: load_report never returns a table built from a file that
\* lacks the expected columns.
C8_Original_RejectsAbsentColumns ==
  ReportLoaded => HasExpectedColumns(csv_file.header)

\* C8 amended: load_report fails, returning no table, exactly when the file is
\* missing, cannot be parsed, or does not have five columns; a five-column table
\* is accepted whatever its column names, which are overwritten.
C8_LoadReportFailsOnColumnCount ==
  LoadReportCalled =>
    /\ (pc = "load_report_error") <=>
         (~csv_file.exists \/ ~csv_file.parses \/ Len(csv_file.header) # 5)
    /\ pc = "load_report_error" => classification_report = NoReport
    /\ ReportLoaded => classification_report.columns = ReportColumns

C8_Witness ==
  /\ pc = "report_loaded"
  /\ Len(csv_file.header) = 5
  /\ ~HasExpectedColumns(csv_file.header)
  /\ Len(classification_report.rows) > 0

\* The positions of d in s, and the k-th segment of s between them.
Positions(s, d) == {i \in 1..Len(s) : s[i] = d}

NthPosition(s, d, m) ==
  CHOOSE i \in Positions(s, d) : Cardinality({j \in Positions(s, d) : j < i}) = m - 1

NthSegment(s, d, k) ==
  LET from == IF k = 1 THEN 1 ELSE NthPosition(s, d, k - 1) + 1
      to == IF Cardinality(Positions(s, d)) >= k THEN NthPosition(s, d, k) - 1 ELSE Len(s)
  IN  SubSeq(s, from, to)

\* The file name in words: the third '/' segment up to its first '_', a
\* space, the upper-cased third '_' segment of the path, ' F1 Score'; spaces
\* written as underscores, then '.png'.
DescribedFileName(path) ==
  LET title == NthSegment(NthSegment(path, "/", 3), "_", 1) \o <<" ">>
                 \o Upper(NthSegment(path, "_", 3)) \o F1ScoreSuffix
  IN  [i \in 1..(Len(title) + 4) |->
         IF i > Len(title) THEN PngSuffix[i - Len(title)]
         ELSE IF title[i] = " " THEN "_" ELSE title[i]]

\* C6 as stated: every call of plot_f1 writes exactly one output file.
C6_Original_AlwaysWritesOneFile ==
  PlotF1Called => Len(saved_files) = 1

\* C6 amended: for a path with at least three '/'-separated and three
\* '_'-separated segments plot_f1 asks for exactly one file, named as described
\* from the path alone, and writes it unless the name holds a '/' and so points
\* into a sub-directory that does not exist; for every other path it raises
\* before saving and writes no file.
C6_PlotF1WritesDescribedFile ==
  PlotF1Called =>
    IF Cardinality(Positions(csv_name, "/")) >= 2 /\ Cardinality(Positions(csv_name, "_")) >= 2
      THEN \/ /\ pc = "plotted"
              /\ Len(saved_files) = 1
              /\ saved_files[1].dir = "f1_scores"
              /\ saved_files[1].name = DescribedFileName(csv_name)
           \/ /\ pc = "savefig_error"
              /\ \E i \in 1..Len(csv_name) :
                   /\ csv_name[i] = "/"
                   /\ Cardinality({j \in Positions(csv_name, "_") : j < i}) = 2
              /\ saved_files = <<>>
      ELSE /\ pc = "plot_f1_error"
           /\ saved_files = <<>>

C6_Witness ==
  /\ pc = "plotted"
  /\ Len(saved_files) = 1
  /\ csv_name = <<"/", "_", "/", "_", "a">>
  /\ saved_files[1].name = <<"_", "A", "_", "F", "1", "_", "S", "c", "o", "r", "e">> \o PngSuffix

ImageDirs == {"f1_scores", "confusion_matrices"}

\* C7: no image file written by plot_f1 or create_confusion_matrix has a space
\* in its name.
C7_ImageFileNamesHaveNoSpace ==
  \A f \in 1..Len(saved_files) :
    saved_files[f].dir \in ImageDirs =>
      \A i \in 1..Len(saved_files[f].name) : saved_files[f].name[i] # " "

\* What np.argmax and topk(5) give for each output vector, tabulated once.
AllOutputVectors == UNION {OutputVectors(Len(cls)) : cls \in ClassLists}

ArgMaxOf == [scores \in AllOutputVectors |-> ArgMax(scores)]

TopKOf ==
  [policy \in TiePolicies |->
     [scores \in AllOutputVectors |-> TopKIndices(scores, TopK, policy)]]

Top1Of(s) == ArgMaxOf[testing_set[s].scores]

Top5Of(s) == TopKOf[tie_break][testing_set[s].scores]

\* C2: when the Top-1 prediction equals the ground truth on every sample, the
\* reported Top-1 and Top-5 accuracies are both 100%.
C2_PerfectClassifierReportsFull ==
  (PredictionsReturned /\ \A s \in 1..Len(testing_set) : Top1Of(s) = testing_set[s].label) =>
    /\ reported.top_1 = 10000
    /\ reported.top_5 = 10000

\* C3: when on every sample the Top-5 set contains the ground truth and the
\* Top-1 prediction differs from it, the reported Top-1 accuracy is 0% and the
\* reported Top-5 accuracy is 100%.
C3_Top5OnlyClassifier ==
  (/\ PredictionsReturned
   /\ \A s \in 1..Len(testing_set) :
        testing_set[s].label \in Top5Of(s) /\ Top1Of(s) # testing_set[s].label) =>
    /\ reported.top_1 = 0
    /\ reported.top_5 = 10000

C3_Witness ==
  /\ pc = "predicted"
  /\ Len(testing_set) = MaxSamples
  /\ \A s \in 1..Len(testing_set) :
       testing_set[s].label \in Top5Of(s) /\ Top1Of(s) # testing_set[s].label
  /\ reported.top_5 = 10000

RECURSIVE SumSeq(_)
SumSeq(q) == IF q = <<>> THEN 0 ELSE Head(q) + SumSeq(Tail(q))

SamplesOfClass(c) == {s \in 1..Len(testing_set) : testing_set[s].label = c}

\* C4: the confusion matrix is square with one row and one column per class,
\* and row c sums to the number of samples whose ground-truth class is c.
C4_ConfusionMatrixRowSums ==
  pc = "done" =>
    /\ Len(conf_matrix) = Len(classes)
    /\ \A c \in 1..Len(classes) :
         /\ Len(conf_matrix[c]) = Len(classes)
         /\ SumSeq(conf_matrix[c]) = Cardinality(SamplesOfClass(c))

C4_Witness ==
  /\ pc = "done"
  /\ \E c \in 1..Len(classes), d \in 1..Len(classes) :
       c # d /\ conf_matrix[c][d] = 1 /\ conf_matrix[c][c] = 1

NoRepeat(q) == \A i \in 1..Len(q), j \in 1..Len(q) : i # j => q[i] # q[j]

\* C5: the loop takes every sample once and appends one ground-truth entry and
\* one prediction per sample: both sequences are as long as the number of
\* samples taken, entry k of both is about the k-th sample taken, and on return
\* both are as long as the test set.
C5_ParallelSequences ==
  pc \in {"loaded", "predicted", "done"} =>
    /\ NoRepeat(order)
    /\ Len(all_ground_truth) = Len(order)
    /\ Len(all_predictions) = Len(order)
    /\ \A k \in 1..Len(order) :
         /\ all_ground_truth[k] = classes[testing_set[order[k]].label]
         /\ all_predictions[k] = classes[Top1Of(order[k])]
    /\ PredictionsReturned =>
         /\ Len(all_ground_truth) = Len(testing_set)
         /\ Len(all_predictions) = Len(testing_set)

C5_Witness ==
  /\ pc = "predicted"
  /\ Len(all_ground_truth) = MaxSamples
  /\ all_ground_truth[1] # all_ground_truth[2]
  /\ all_predictions[1] # all_predictions[2]

\* C9: the counters satisfy 0 <= Top-1 count <= Top-5 count <= samples taken,
\* ties for the maximum included.
C9_Top1AtMostTop5 ==
  /\ 0 <= top_1_accuracy
  /\ top_1_accuracy <= top_5_accuracy
  /\ top_5_accuracy <= Len(order)

\* C10: for a fixed model and test set the final Top-1 count, Top-5 count and
\* confusion matrix are those of the test set, whatever order the shuffling
\* loader delivered it in.
C10_OrderIndependent ==
  PredictionsReturned =>
    LET set == 1..Len(testing_set)
        top1 == [s \in set |-> Top1Of(s)]
    IN  /\ top_1_accuracy = Cardinality({s \in set : top1[s] = testing_set[s].label})
        /\ top_5_accuracy = Cardinality({s \in set : testing_set[s].label \in Top5Of(s)})
        /\ pc = "done" =>
             \A c \in 1..Len(classes), d \in 1..Len(classes) :
               conf_matrix[c][d] =
                 Cardinality({s \in set : testing_set[s].label = c /\ top1[s] = d})

C10_Witness ==
  /\ pc = "done"
  /\ Len(order) = MaxSamples
  /\ order[1] > order[2]
  /\ testing_set[1] # testing_set[2]
  /\ top_1_accuracy = 1
  /\ top_5_accuracy = 2

====
